---- MODULE Spec2Model ----
(***************************************************************************)
(* A model of the tick_counter crate (src/src/lib.rs): the raw counter     *)
(* reads (RDTSC / RDTSCP / CNTVCT_EL0), the fenced start()/stop() pair,    *)
(* the frequency query (hardware register on aarch64, timed calibration on *)
(* x86_64) and the precision calculator.                                   *)
(*                                                                         *)
(* Four specifications share the module:                                   *)
(*   SpecCalc  the arithmetic of x86_64_measure_frequency and precision    *)
(*             applied to inputs drawn from bounded sets;                  *)
(*   Spec      threads taking pairs of counter samples on a machine with   *)
(*             several cores, an operating system that may migrate a       *)
(*             thread at any time, and passing time;                       *)
(*   SpecFreq  threads calling frequency() on the same machine;            *)
(*   SpecAsm   one call of start() or stop() at the level of single        *)
(*             instructions, executed out of program order as far as the   *)
(*             fences and register dependencies allow.                     *)
(*                                                                         *)
(* Widths are scaled: a 32-bit register half is HalfBits bits wide and the *)
(* 64-bit counter 2*HalfBits bits, so that the edx:eax split, the shift    *)
(* and the or are computed rather than assumed.                            *)
(***************************************************************************)
EXTENDS Integers, Sequences, FiniteSets, TLC

VARIABLES
    \* ---- SpecCalc
    calc,       \* the last pure computation: its inputs and its result
    \* ---- Spec: the machine
    arch,       \* target_arch the crate was built for
    build,      \* "debug" (overflow checks) or "release" (wrapping arithmetic)
    now,        \* elapsed time, in periods of the hardware counter
    skew,       \* skew[c]: offset of core c's time-stamp counter
    cpu,        \* cpu[t]: the core thread t currently runs on
    \* ---- Spec: the threads
    pc,         \* pc[t]: where thread t is in the operation it runs
    v1, v2,     \* first and second counter value of the running operation
    id1, id2,   \* first and second core id (x86_64_processor_id)
    at1, at2,   \* (ghost) time and core of the first and second sample
    wake,       \* wake[t]: earliest time thread::sleep may return
    slept,      \* slept[t]: the Duration handed to thread::sleep
    nsamples,   \* (ghost) counter samples taken by the running frequency()
    ret,        \* ret[t]: what frequency() returned
    ncalls,     \* ncalls[t]: frequency() calls thread t has completed
    \* ---- SpecAsm
    fn,         \* the function whose instruction sequence executes
    st,         \* st[i]: execution status of instruction i of the window
    regs,       \* the register file
    pre,        \* the register file when the asm block was entered
    kinds,      \* the caller's instruction before and after the call
    sampled     \* rdtsc has read the counter

calcVars == <<calc>>
machVars == <<arch, build, now, skew, cpu>>
thrVars  == <<pc, v1, v2, id1, id2, at1, at2, wake, slept, nsamples, ret, ncalls>>
asmVars  == <<fn, st, regs, pre, kinds, sampled>>
vars     == <<calc, arch, build, now, skew, cpu, pc, v1, v2, id1, id2, at1, at2,
              wake, slept, nsamples, ret, ncalls, fn, st, regs, pre, kinds, sampled>>

(***************************************************************************)
(* Bounds of the model.                                                    *)
(***************************************************************************)
HalfBits == 2      \* bits of one register half (stands for 32)
MaxTick  == 8      \* time stops being advanced here (no counter wraparound)
MaxPairTick == 5   \* the same for Spec, whose threads only take pairs of samples
MaxSkew  == 4      \* largest offset between two cores' counters
Rate     == 2      \* counter periods per second
MaxCalls == 2      \* frequency() calls per thread
MaxDelta == 9      \* largest counter sample handed to the pure computation
MaxSecs  == 3      \* longest whole-second measurement interval
MaxFreq  == 12     \* small frequencies handed to precision

Half    == 2 ^ HalfBits            \* 2^32 in the crate
Modulus == 2 ^ (2 * HalfBits)      \* 2^64 in the crate

(***************************************************************************)
(* f64 and Duration.  An f64 is a class and, when finite, an exact         *)
(* fraction num/den; every integer of the model is below 2^53 and every    *)
(* Duration a whole or half second, for which f64 arithmetic is exact up   *)
(* to the final truncation.                                                *)
(***************************************************************************)
RECURSIVE GCD(_, _)
GCD(a, b) == IF b = 0 THEN a ELSE GCD(b, a % b)

NANOS_PER_SEC == 1000000000

Fin(n, d) == [cls |-> "fin", num |-> n, den |-> d]
PosInf    == [cls |-> "inf", num |-> 1, den |-> 0]
NaN       == [cls |-> "nan", num |-> 0, den |-> 0]

\* `x as f64` for x: u64
U64ToF64(n) == Fin(n, 1)

\* f64 division, IEEE 754 for non-negative operands: x/0 is +inf, 0/0 is NaN
F64Div(a, b) ==
    IF b.num = 0
    THEN (IF a.num = 0 THEN NaN ELSE PosInf)
    ELSE LET n == a.num * b.den
             d == a.den * b.num
             g == GCD(n, d)
         IN  Fin(n \div g, d \div g)

\* the cast rounding to the nearest integer instead
F64ToU64_round(x) ==
    CASE x.cls = "nan" -> 0
      [] x.cls = "fin" -> (2 * x.num + x.den) \div (2 * x.den)

\* `x as u64` for x: f64: truncation toward zero, NaN to 0 (+inf saturates to
\* u64::MAX; no positive interval of the model produces it in a cast)
F64ToU64(x) ==
    CASE x.cls = "nan" -> 0
      [] x.cls = "fin" -> x.num \div x.den

\* Duration::from_secs, Duration::from_millis
from_secs(s) == [secs |-> s, nanos |-> 0]
from_millis(ms) == [secs |-> ms \div 1000, nanos |-> (ms % 1000) * 1000000]

\* Duration::as_secs_f64: secs + nanos / 1e9
as_secs_f64(d) ==
    LET g == GCD(d.nanos, NANOS_PER_SEC)
    IN  Fin(d.secs * (NANOS_PER_SEC \div g) + (d.nanos \div g), NANOS_PER_SEC \div g)

\* counter_stop - counter_start on u64: a panic with overflow checks (debug),
\* the wrapped difference without (release)
U64Sub(a, b, bld) ==
    IF a >= b THEN [kind |-> "ok", val |-> a - b]
    ELSE IF bld = "debug" THEN [kind |-> "panic", val |-> 0]
    ELSE [kind |-> "ok", val |-> a - b + Modulus]

\* the difference taken the wrong way round
MeasureCompute_swapped(counter_start, counter_stop, d, bld) ==
    LET delta == U64Sub(counter_start, counter_stop, bld)
    IN  IF delta.kind = "panic" THEN delta
        ELSE [kind |-> "ok",
              val  |-> F64ToU64(F64Div(U64ToF64(delta.val), as_secs_f64(d)))]

\* line 162: (((counter_stop - counter_start) as f64) / measure_duration.as_secs_f64()) as u64
MeasureCompute(counter_start, counter_stop, d, bld) ==
    LET delta == U64Sub(counter_stop, counter_start, bld)
    IN  IF delta.kind = "panic" THEN delta
        ELSE [kind |-> "ok",
              val  |-> F64ToU64(F64Div(U64ToF64(delta.val), as_secs_f64(d)))]

\* the quotient inverted, and the quotient in integer arithmetic
precision_inverted(frequency) == F64Div(U64ToF64(frequency), Fin(NANOS_PER_SEC, 1))

precision_integer(frequency) ==
    IF frequency = 0 THEN [cls |-> "panic", num |-> 0, den |-> 0]
    ELSE Fin(NANOS_PER_SEC \div frequency, 1)

\* lines 166-168: 1.0e9_f64 / (frequency as f64)
precision(frequency) == F64Div(Fin(NANOS_PER_SEC, 1), U64ToF64(frequency))

(***************************************************************************)
(* SpecCalc: the pure computations on inputs drawn from bounded sets.      *)
(***************************************************************************)
Builds    == {"debug", "release"}
Durations == {from_secs(s) : s \in 1..MaxSecs} \cup {from_millis(500), from_millis(1500)}
Freqs     == (0..MaxFreq) \cup {24000000, 1000000000, 1000000001, 2000000000}

CalcMeasure ==
    \E a \in 0..MaxDelta, b \in 0..MaxDelta, d \in Durations, bld \in Builds :
        calc' = [op |-> "measure", counter_start |-> a, counter_stop |-> b,
                 d |-> d, bld |-> bld, out |-> MeasureCompute(a, b, d, bld)]

CalcPrecision ==
    \E f \in Freqs :
        calc' = [op |-> "precision", frequency |-> f, out |-> precision(f)]

(***************************************************************************)
(* The machine.  Every core of an x86_64 machine has a time-stamp counter  *)
(* of its own, running at one rate and offset by skew[c]; RDTSC returns    *)
(* the counter of the core it executes on, split over EDX:EAX, and RDTSCP  *)
(* returns in ECX the core's IA32_TSC_AUX as well, which the operating     *)
(* system sets to the core's number.  An aarch64 machine has one system    *)
(* counter, CNTVCT_EL0, and its frequency in CNTFRQ_EL0.                   *)
(***************************************************************************)
Threads == {"t1", "t2"}
Cores   == {0, 1}
Archs   == {"x86_64", "aarch64"}

RECURSIVE BitOr(_, _)
BitOr(a, b) ==
    IF a = 0 THEN b
    ELSE IF b = 0 THEN a
    ELSE (IF a % 2 = 1 \/ b % 2 = 1 THEN 1 ELSE 0) + 2 * BitOr(a \div 2, b \div 2)

Shl(x, n) == (x * 2 ^ n) % Modulus

TscOf(c)  == now + skew[c]
EAX(c)    == TscOf(c) % Half
EDX(c)    == (TscOf(c) \div Half) % Half
TscAux(c) == c
CNTVCT    == now
CNTFRQ    == Rate

\* the halves combined without the shift
x86_64_tick_counter_noshift(c) == BitOr(EDX(c), EAX(c))

\* lines 86-95: asm!("rdtsc", out("eax") reg_eax, out("edx") reg_edx);
\*              (reg_edx as u64) << 32 | reg_eax as u64
x86_64_tick_counter(c) == BitOr(Shl(EDX(c), HalfBits), EAX(c))

\* ecx not taken from the instruction
x86_64_processor_id_stale_ecx(c) == <<BitOr(Shl(EDX(c), HalfBits), EAX(c)), 0>>

\* lines 104-114: asm!("rdtscp", out("eax") .., out("edx") .., out("ecx") reg_ecx)
x86_64_processor_id(c) == <<BitOr(Shl(EDX(c), HalfBits), EAX(c)), TscAux(c)>>

\* lines 28-37: asm!("mrs x0, cntvct_el0", out("x0") tick_counter)
aarch64_tick_counter == CNTVCT

(***************************************************************************)
(* The instruction sequences of start() and stop() on x86_64 and what each *)
(* instruction does to the register file.  In 64-bit mode RDTSC clears the *)
(* upper halves of RAX and RDX.                                            *)
(***************************************************************************)
\* the fences issued after the read
StartSeq_fence_after == <<"rdtsc", "mfence", "lfence", "shl", "or">>

\* lines 122-128
StartSeq == <<"mfence", "lfence", "rdtsc", "shl", "or">>

\* lines 140-145
StopSeq == <<"rdtsc", "lfence", "shl", "or">>

\* out("rax") rax: the only register either block declares to the compiler
DeclaredOut == {"rax"}

RegNames == {"rax", "rdx", "rcx"}
ZeroRegs == [r \in RegNames |-> 0]

Exec(ins, r, tsc) ==
    CASE ins = "rdtsc" -> [r EXCEPT !["rax"] = tsc % Half,
                                    !["rdx"] = (tsc \div Half) % Half]
      [] ins = "shl"   -> [r EXCEPT !["rdx"] = Shl(r["rdx"], HalfBits)]
      [] ins = "or"    -> [r EXCEPT !["rax"] = BitOr(r["rax"], r["rdx"])]
      [] OTHER         -> r

RECURSIVE RunSeq(_, _, _)
RunSeq(seq, r, tsc) ==
    IF seq = <<>> THEN r ELSE RunSeq(Tail(seq), Exec(Head(seq), r, tsc), tsc)

\* lines 117-132 (x86_64) and 40-44 (aarch64): the value start() returns on core c
start(c) ==
    IF arch = "x86_64" THEN RunSeq(StartSeq, ZeroRegs, TscOf(c))["rax"]
    ELSE aarch64_tick_counter

\* lines 135-149 (x86_64) and 47-51 (aarch64)
stop(c) ==
    IF arch = "x86_64" THEN RunSeq(StopSeq, ZeroRegs, TscOf(c))["rax"]
    ELSE aarch64_tick_counter

(***************************************************************************)
(* Spec: threads.                                                          *)
(***************************************************************************)
Hardware    == [tag |-> "Hardware", d |-> from_secs(0)]
Measured(d) == [tag |-> "Measured", d |-> d]

NoRet == [kind |-> "none", hz |-> 0, base |-> Hardware]
NoAt  == [time |-> 0, core |-> 0]
Here(t) == [time |-> now, core |-> cpu[t]]

\* an x86_64 read returns a value no other read on that core returns: it takes
\* at least one period of the time-stamp counter; the aarch64 system counter is
\* slower than the instruction stream, so a read may take no period at all
ReadCost == IF arch = "x86_64" THEN 1 ELSE 0

DurMillis(d) == d.secs * 1000 + d.nanos \div 1000000
\* counter periods in d, rounded up: thread::sleep(d) sleeps at least d
SleepTicks(d) == (DurMillis(d) * Rate + 999) \div 1000

\* line 74
measure_duration == from_secs(1)

\* line 75, and the tag of the other backend in its place
frequency_base_hardware == Hardware

frequency_base == Measured(measure_duration)

First(t, val, id, to, cap) ==
    /\ pc[t] = "idle"
    /\ now + ReadCost <= cap
    /\ v1' = [v1 EXCEPT ![t] = val]
    /\ id1' = [id1 EXCEPT ![t] = id]
    /\ at1' = [at1 EXCEPT ![t] = Here(t)]
    /\ pc' = [pc EXCEPT ![t] = to]
    /\ now' = now + ReadCost
    /\ UNCHANGED <<arch, build, skew, cpu, v2, id2, at2>>

Second(t, from, val, id, to, cap) ==
    /\ pc[t] = from
    /\ now + ReadCost <= cap
    /\ v2' = [v2 EXCEPT ![t] = val]
    /\ id2' = [id2 EXCEPT ![t] = id]
    /\ at2' = [at2 EXCEPT ![t] = Here(t)]
    /\ pc' = [pc EXCEPT ![t] = to]
    /\ now' = now + ReadCost
    /\ UNCHANGED <<arch, build, skew, cpu, v1, id1, at1>>

\* tests, lines 204-205: two x86_64_tick_counter() calls
TickCounterFirst(t) ==
    /\ arch = "x86_64"
    /\ First(t, x86_64_tick_counter(cpu[t]), 0, "tc_1", MaxPairTick)
    /\ UNCHANGED <<wake, slept, nsamples, ret, ncalls, calc, asmVars>>

TickCounterSecond(t) ==
    /\ Second(t, "tc_1", x86_64_tick_counter(cpu[t]), 0, "tc_done", MaxPairTick)
    /\ UNCHANGED <<wake, slept, nsamples, ret, ncalls, calc, asmVars>>

\* tests, lines 177-179 and 210-211: start() then stop()
StartCall(t) ==
    /\ First(t, start(cpu[t]), 0, "ss_1", MaxPairTick)
    /\ UNCHANGED <<wake, slept, nsamples, ret, ncalls, calc, asmVars>>

StopCall(t) ==
    /\ Second(t, "ss_1", stop(cpu[t]), 0, "ss_done", MaxPairTick)
    /\ UNCHANGED <<wake, slept, nsamples, ret, ncalls, calc, asmVars>>

\* tests, lines 235-236: two x86_64_processor_id() calls
ProcessorIdFirst(t) ==
    /\ arch = "x86_64"
    /\ LET r == x86_64_processor_id(cpu[t])
       IN  First(t, r[1], r[2], "pid_1", MaxPairTick)
    /\ UNCHANGED <<wake, slept, nsamples, ret, ncalls, calc, asmVars>>

ProcessorIdSecond(t) ==
    /\ LET r == x86_64_processor_id(cpu[t])
       IN  Second(t, "pid_1", r[1], r[2], "pid_done", MaxPairTick)
    /\ UNCHANGED <<wake, slept, nsamples, ret, ncalls, calc, asmVars>>

\* frequency() keeping its first result in a process-wide cell
FrequencyBegin_memo(t) ==
    /\ arch = "x86_64"
    /\ ncalls[t] < MaxCalls
    /\ IF ncalls[t] > 0
       THEN /\ pc[t] = "idle"
            /\ pc' = [pc EXCEPT ![t] = "fq_done"]
            /\ ret' = [ret EXCEPT ![t] = [kind |-> "ok", hz |-> CNTFRQ, base |-> frequency_base]]
            /\ ncalls' = [ncalls EXCEPT ![t] = @ + 1]
            /\ UNCHANGED <<machVars, v1, v2, id1, id2, at1, at2, wake, slept,
                           nsamples, calc, asmVars>>
       ELSE /\ First(t, start(cpu[t]), 0, "fq_sleeping", MaxTick)
            /\ nsamples' = [nsamples EXCEPT ![t] = 1]
            /\ slept' = [slept EXCEPT ![t] = measure_duration]
            /\ wake' = [wake EXCEPT ![t] = now' + SleepTicks(measure_duration)]
            /\ UNCHANGED <<ret, ncalls, calc, asmVars>>

\* lines 73-77 and 157-160: frequency() on x86_64 up to the sleep:
\* counter_start = start(); thread::sleep(*measure_duration)
FrequencyBegin(t) ==
    /\ arch = "x86_64"
    /\ ncalls[t] < MaxCalls
    /\ First(t, start(cpu[t]), 0, "fq_sleeping", MaxTick)
    /\ nsamples' = [nsamples EXCEPT ![t] = 1]
    /\ slept' = [slept EXCEPT ![t] = measure_duration]
    /\ wake' = [wake EXCEPT ![t] = now' + SleepTicks(measure_duration)]
    /\ UNCHANGED <<ret, ncalls, calc, asmVars>>

\* thread::sleep returns: not before the interval has passed
FrequencyWake(t) ==
    /\ pc[t] = "fq_sleeping"
    /\ now >= wake[t]
    /\ pc' = [pc EXCEPT ![t] = "fq_woken"]
    /\ UNCHANGED <<machVars, v1, v2, id1, id2, at1, at2, wake, slept, nsamples,
                   ret, ncalls, calc, asmVars>>

\* lines 161-162 and 76: counter_stop = stop(); the quotient; the pair returned
FrequencyEnd(t) ==
    /\ Second(t, "fq_woken", stop(cpu[t]), 0, "fq_done", MaxTick)
    /\ nsamples' = [nsamples EXCEPT ![t] = 2]
    /\ LET hz == MeasureCompute(v1[t], v2'[t], slept[t], build)
       IN  /\ ret' = [ret EXCEPT ![t] =
                        IF hz.kind = "panic"
                        THEN [kind |-> "panic", hz |-> 0, base |-> Hardware]
                        ELSE [kind |-> "ok", hz |-> hz.val, base |-> frequency_base]]
    /\ ncalls' = [ncalls EXCEPT ![t] = @ + 1]
    /\ UNCHANGED <<wake, slept, calc, asmVars>>

\* lines 58-67: frequency() on aarch64: mrs x0, cntfrq_el0
FrequencyHardware(t) ==
    /\ arch = "aarch64"
    /\ pc[t] = "idle"
    /\ ncalls[t] < MaxCalls
    /\ ret' = [ret EXCEPT ![t] = [kind |-> "ok", hz |-> CNTFRQ, base |-> Hardware]]
    /\ ncalls' = [ncalls EXCEPT ![t] = @ + 1]
    /\ pc' = [pc EXCEPT ![t] = "fq_done"]
    /\ UNCHANGED <<machVars, v1, v2, id1, id2, at1, at2, wake, slept, nsamples,
                   calc, asmVars>>

DonePcs == {"tc_done", "ss_done", "pid_done", "fq_done"}

\* the operation's values go out of scope; a panic ends the thread instead
Finish(t) ==
    /\ pc[t] \in DonePcs
    /\ ret[t].kind # "panic"
    /\ pc' = [pc EXCEPT ![t] = "idle"]
    /\ v1' = [v1 EXCEPT ![t] = 0]
    /\ v2' = [v2 EXCEPT ![t] = 0]
    /\ id1' = [id1 EXCEPT ![t] = 0]
    /\ id2' = [id2 EXCEPT ![t] = 0]
    /\ at1' = [at1 EXCEPT ![t] = NoAt]
    /\ at2' = [at2 EXCEPT ![t] = NoAt]
    /\ nsamples' = [nsamples EXCEPT ![t] = 0]
    /\ ret' = [ret EXCEPT ![t] = NoRet]
    /\ UNCHANGED <<machVars, wake, slept, ncalls, calc, asmVars>>

\* the operating system moves thread t to another core
Migrate(t) ==
    /\ \E c \in Cores \ {cpu[t]} : cpu' = [cpu EXCEPT ![t] = c]
    /\ UNCHANGED <<arch, build, now, skew, thrVars, calc, asmVars>>

\* one period of the counter passes
Elapse(cap) ==
    /\ now < cap
    /\ now' = now + 1
    /\ UNCHANGED <<arch, build, skew, cpu, thrVars, calc, asmVars>>

InitCalc == calc = [op |-> "none"]

InitThreads ==
    /\ pc = [t \in Threads |-> "idle"]
    /\ v1 = [t \in Threads |-> 0]
    /\ v2 = [t \in Threads |-> 0]
    /\ id1 = [t \in Threads |-> 0]
    /\ id2 = [t \in Threads |-> 0]
    /\ at1 = [t \in Threads |-> NoAt]
    /\ at2 = [t \in Threads |-> NoAt]
    /\ wake = [t \in Threads |-> 0]
    /\ slept = [t \in Threads |-> from_secs(0)]
    /\ nsamples = [t \in Threads |-> 0]
    /\ ret = [t \in Threads |-> NoRet]
    /\ ncalls = [t \in Threads |-> 0]

InitAsmIdle ==
    /\ fn = "none"
    /\ st = <<>>
    /\ regs = ZeroRegs
    /\ pre = ZeroRegs
    /\ kinds = [before |-> "alu", after |-> "alu"]
    /\ sampled = FALSE

InitMachineIdle ==
    /\ arch = "x86_64"
    /\ build = "release"
    /\ now = 0
    /\ skew = [c \in Cores |-> 0]
    /\ cpu = [t \in Threads |-> 0]

\* core 0 is the reference; the aarch64 system counter is one for all cores
InitMachine ==
    /\ arch \in Archs
    /\ now = 0
    /\ skew \in {s \in [Cores -> 0..MaxSkew] :
                    s[0] = 0 /\ (arch = "aarch64" => s[1] = 0)}
    /\ cpu \in [Threads -> Cores]

\* Spec: threads taking pairs of counter samples
Init ==
    /\ InitMachine
    /\ build = "release"
    /\ InitThreads
    /\ InitCalc
    /\ InitAsmIdle

Next ==
    \/ \E t \in Threads :
          \/ TickCounterFirst(t)
          \/ TickCounterSecond(t)
          \/ StartCall(t)
          \/ StopCall(t)
          \/ ProcessorIdFirst(t)
          \/ ProcessorIdSecond(t)
          \/ Finish(t)
          \/ Migrate(t)
    \/ Elapse(MaxPairTick)

Spec == Init /\ [][Next]_vars

\* SpecFreq: threads calling frequency()
InitFreq ==
    /\ InitMachine
    /\ build \in Builds
    /\ InitThreads
    /\ InitCalc
    /\ InitAsmIdle

NextFreq ==
    \/ \E t \in Threads :
          \/ FrequencyBegin(t)
          \/ FrequencyWake(t)
          \/ FrequencyEnd(t)
          \/ FrequencyHardware(t)
          \/ Finish(t)
          \/ Migrate(t)
    \/ Elapse(MaxTick)

SpecFreq == InitFreq /\ [][NextFreq]_vars

InitSpecCalc == InitCalc /\ InitMachineIdle /\ InitThreads /\ InitAsmIdle

NextCalc ==
    /\ (CalcMeasure \/ CalcPrecision)
    /\ UNCHANGED <<machVars, thrVars, asmVars>>

SpecCalc == InitSpecCalc /\ [][NextCalc]_vars

(***************************************************************************)
(* SpecAsm: one call of start() or stop() between an instruction of the    *)
(* caller before it and one after it, executed out of program order.       *)
(*                                                                         *)
(* An instruction is pending, then done (completed locally); a store is    *)
(* done when it has retired into the store buffer and visible when the     *)
(* buffer has written it to memory.  The ordering rules are those of the   *)
(* instruction set: LFENCE does not execute until every earlier            *)
(* instruction has completed locally, and no later instruction begins      *)
(* until LFENCE has completed; MFENCE completes when every earlier load    *)
(* and store is globally visible, and no later load or store begins        *)
(* before; RDTSC is ordered by neither its predecessors nor its            *)
(* successors; a store retires in program order; an instruction waits for  *)
(* the registers it reads.                                                 *)
(***************************************************************************)
CallerKinds == {"load", "store", "alu"}
Fences      == {"mfence", "lfence"}

AsmSeq == IF fn = "start" THEN StartSeq ELSE StopSeq
W      == <<kinds.before>> \o AsmSeq \o <<kinds.after>>
Before == 1
After  == Len(W)

Pos(seq, ins) == CHOOSE i \in DOMAIN seq : seq[i] = ins
Reads(ins) ==
    CASE ins = "shl" -> {"rdtsc"}
      [] ins = "or"  -> {"rdtsc", "shl"}
      [] OTHER       -> {}

Local(i)   == st[i] # "pending"
Global(i)  == IF W[i] = "store" THEN st[i] = "visible" ELSE st[i] = "done"

CanExec(i) ==
    /\ st[i] = "pending"
    /\ \A j \in 1..(i - 1) : W[j] = "lfence" => Local(j)
    /\ W[i] = "lfence" => \A j \in 1..(i - 1) : Local(j)
    /\ W[i] = "mfence" => \A j \in 1..(i - 1) : W[j] \in {"load", "store"} => Global(j)
    /\ W[i] \in {"load", "store"} => \A j \in 1..(i - 1) : W[j] = "mfence" => Local(j)
    /\ W[i] = "store" => \A j \in 1..(i - 1) : Local(j)
    /\ \A j \in DOMAIN W : W[j] \in Reads(W[i]) => Local(j)

Issue(i) ==
    /\ CanExec(i)
    /\ st' = [st EXCEPT ![i] = "done"]
    /\ regs' = Exec(W[i], regs, TscOf(0))
    /\ sampled' = (sampled \/ W[i] = "rdtsc")
    /\ UNCHANGED <<fn, pre, kinds, calc, machVars, thrVars>>

ExecCaller == \E i \in {Before, After} : Issue(i)
ExecMfence == \E i \in DOMAIN W : W[i] = "mfence" /\ Issue(i)
ExecLfence == \E i \in DOMAIN W : W[i] = "lfence" /\ Issue(i)
ExecRdtsc  == \E i \in DOMAIN W : W[i] = "rdtsc" /\ Issue(i)
ExecShl    == \E i \in DOMAIN W : W[i] = "shl" /\ Issue(i)
ExecOr     == \E i \in DOMAIN W : W[i] = "or" /\ Issue(i)

\* the store buffer writes a retired store to memory
StoreDrain ==
    \E i \in {Before, After} :
        /\ W[i] = "store"
        /\ st[i] = "done"
        /\ st' = [st EXCEPT ![i] = "visible"]
        /\ UNCHANGED <<fn, regs, pre, kinds, sampled, calc, machVars, thrVars>>

InitAsm ==
    /\ fn \in {"start", "stop"}
    /\ kinds \in [before : CallerKinds, after : CallerKinds]
    /\ pre \in [RegNames -> 0..1]
    /\ regs = pre
    /\ st = [i \in 1..(Len(AsmSeq) + 2) |-> "pending"]
    /\ sampled = FALSE
    /\ arch = "x86_64"
    /\ build = "release"
    /\ now \in 0..MaxTick
    /\ skew = [c \in Cores |-> 0]
    /\ cpu = [t \in Threads |-> 0]
    /\ InitThreads
    /\ InitCalc

NextAsm ==
    \/ ExecCaller
    \/ ExecMfence
    \/ ExecLfence
    \/ ExecRdtsc
    \/ ExecShl
    \/ ExecOr
    \/ StoreDrain

SpecAsm == InitAsm /\ [][NextAsm]_vars

(***************************************************************************)
(* Properties.                                                             *)
(***************************************************************************)
PairDone(t) == pc[t] \in {"tc_done", "ss_done", "pid_done"}
SameCounterDomain(t) == skew[at1[t].core] = skew[at2[t].core]

Returned(t) == pc[t] = "fq_done"

C3_RoundedToNearest ==
    (calc.op = "measure" /\ calc.counter_stop >= calc.counter_start) =>
        /\ calc.out.kind = "ok"
        /\ calc.out.val =
              (2 * 1000 * (calc.counter_stop - calc.counter_start) + DurMillis(calc.d))
                  \div (2 * DurMillis(calc.d))

\* C3 amended: the measured frequency is the tick delta divided by the seconds
\* of the interval, truncated toward zero.
C3_Truncated ==
    (calc.op = "measure" /\ calc.counter_stop >= calc.counter_start) =>
        /\ calc.out.kind = "ok"
        /\ calc.out.val =
              (1000 * (calc.counter_stop - calc.counter_start)) \div DurMillis(calc.d)

\* 3 ticks in 2 seconds: 1 Hz, where rounding would give 2
C3_Witness ==
    /\ calc.op = "measure"
    /\ calc.counter_stop - calc.counter_start = 3
    /\ calc.d = from_secs(2)
    /\ calc.out.val = 1

\* C4: on x86_64 every pair frequency() returns carries Measured(d), never
\* Hardware, where d is the interval handed to the sleep between the two
\* samples, and that is 1000 ms.
C4_MeasuredOneSecond ==
    \A t \in Threads :
        (Returned(t) /\ arch = "x86_64" /\ ret[t].kind = "ok") =>
            /\ ret[t].base.tag = "Measured"
            /\ ret[t].base.d = slept[t]
            /\ ret[t].base.d = from_millis(1000)
            /\ at2[t].time >= at1[t].time + SleepTicks(ret[t].base.d)

C4_Witness ==
    \E t \in Threads :
        /\ Returned(t) /\ arch = "x86_64" /\ ret[t].kind = "ok"
        /\ ret[t].base = Measured(from_millis(1000))
        /\ ncalls[t] = MaxCalls

PairConsistent(v, id, at) == id = at.core /\ v = at.time + skew[id]

Locals(t) == <<pc[t], v1[t], v2[t], at1[t], at2[t], wake[t], slept[t],
               nsamples[t], ret[t], ncalls[t]>>

\* C6: frequency() on x86_64 is not memoized: every call that returns has
\* taken two samples of its own, at least the whole interval apart, however
\* many calls the thread or another thread completed before; and a step of
\* one thread leaves the other thread's values alone.
C6_EveryCallCalibrates ==
    /\ [](\A t \in Threads :
            arch = "x86_64" =>
              /\ Returned(t) =>
                    /\ nsamples[t] = 2
                    /\ slept[t] = measure_duration
                    /\ at2[t].time - at1[t].time >= SleepTicks(measure_duration)
              /\ pc[t] = "fq_sleeping" => nsamples[t] = 1
              /\ pc[t] = "fq_woken" =>
                    now - at1[t].time >= SleepTicks(measure_duration))
    /\ [][\A t \in Threads : \A u \in Threads \ {t} :
            Locals(t)' # Locals(t) => Locals(u)' = Locals(u)]_vars

\* a thread's second call has returned while the other thread is inside a call
C6_Witness ==
    \E t \in Threads : \E u \in Threads \ {t} :
        /\ arch = "x86_64" /\ Returned(t) /\ ncalls[t] = 2 /\ nsamples[t] = 2
        /\ pc[u] \in {"fq_sleeping", "fq_woken"}

\* C7: for every frequency above 0, precision returns 1e9 / frequency: positive,
\* finite, and with integer part floor(10^9 / frequency), which is 41 for
\* 24_000_000.
C7_PrecisionIsQuotient ==
    (calc.op = "precision" /\ calc.frequency > 0) =>
        LET g == GCD(NANOS_PER_SEC, calc.frequency)
        IN  /\ calc.out.cls = "fin"
            /\ calc.out.num > 0 /\ calc.out.den > 0
            /\ calc.out.num = NANOS_PER_SEC \div g
            /\ calc.out.den = calc.frequency \div g
            /\ F64ToU64(calc.out) = NANOS_PER_SEC \div calc.frequency
            /\ calc.frequency = 24000000 => F64ToU64(calc.out) = 41

C7_Witness ==
    /\ calc.op = "precision"
    /\ calc.frequency = 24000000
    /\ F64ToU64(calc.out) = 41

\* C8: precision(0) returns positive infinity, an ordinary value, and does not
\* panic.
C8_ZeroGivesInfinity ==
    (calc.op = "precision" /\ calc.frequency = 0) => calc.out = PosInf

C8_Witness ==
    calc.op = "precision" /\ calc.frequency = 0 /\ calc.out.cls = "inf"

FencesBeforeRead(seq) ==
    /\ \A i \in DOMAIN seq : seq[i] \in Fences => i < Pos(seq, "rdtsc")
    /\ Fences \subseteq {seq[i] : i \in DOMAIN seq}
FenceAfterRead(seq) ==
    /\ \A i \in DOMAIN seq : seq[i] \in Fences => i > Pos(seq, "rdtsc")
    /\ "lfence" \in {seq[i] : i \in DOMAIN seq}

\* C9: in start() mfence and lfence come before rdtsc and no fence after it, in
\* stop() lfence comes after rdtsc and no fence before it; so when start() has
\* sampled the counter the caller's earlier instruction has taken effect (a
\* store is globally visible), and the caller's later instruction does not
\* begin before stop() has sampled the counter.
C9_FencesBracketTheMeasuredRegion ==
    /\ FencesBeforeRead(StartSeq)
    /\ FenceAfterRead(StopSeq)
    /\ (fn = "start" /\ sampled) => Global(Before)
    /\ (fn = "stop" /\ Local(After)) => sampled

\* start() has sampled the counter and the caller's earlier store is in memory
C9_Witness ==
    /\ fn = "start" /\ kinds.before = "store"
    /\ sampled /\ st[Before] = "visible" /\ st[After] = "pending"

AsmDone == \A i \in DOMAIN W : W[i] \notin CallerKinds => st[i] = "done"

\* C10: when start() or stop() has executed, every register the asm block does
\* not declare as an output holds the value it held on entry.
C10_UndeclaredRegistersKept ==
    (fn \in {"start", "stop"} /\ AsmDone) =>
        \A r \in RegNames \ DeclaredOut : regs[r] = pre[r]

====
